---- MODULE Spec2Model ----
(***************************************************************************)
(* Model of the content-generator core of gemini-cli:                      *)
(*   contentGenerator.ts  (src/unnamed/part_000)  config resolution and    *)
(*                                                provider dispatch        *)
(*   openaiProvider.ts    (src/unnamed/part_001)  OpenAI adapter           *)
(*   OpenAI-template adapter (src/unnamed/part_002)                        *)
(*   claudeProvider.ts, grokProvider.ts, googleGenaiProvider.ts            *)
(*                                                                         *)
(* Strings that the code builds or inspects are modelled as sequences of   *)
(* tokens: a message literal is the sequence of its fragments, a template  *)
(* literal is the concatenation of its fragments and interpolated values,  *)
(* and "the message names X" is "X is one of the tokens".  Request texts   *)
(* are sequences of characters and join('') is sequence concatenation.     *)
(***************************************************************************)
EXTENDS Integers, Sequences, FiniteSets, TLC

VARIABLES
    env,         \* process.env: environment variable -> value or Undefined
    gcConfig,    \* the session Config object: what getModel(), getProxy() return
    sessionId,   \* the session id the caller passes on, or Undefined
    entry,       \* the exported function the caller created the generator with
    cfg,         \* the ContentGeneratorConfig in the caller's hands
    pc,          \* where the session is: start, configured, created, failed
    invoked,     \* constructor calls made by createContentGenerator, in order
    clients,     \* backend SDK clients constructed so far, in order
    generator,   \* which adapter's generator object the caller holds
    error,       \* message of the error the last operation rejected with
    op,          \* the Facade operation called last
    request,     \* the request handed to the last Facade operation
    calls,       \* backend calls issued by the last Facade operation
    response,    \* what the last Facade operation resolved to
    backend,     \* what the backend answered: the completion, or the stream's events so far
    chunks       \* the chunks the stream iterator has yielded so far

vars == <<env, gcConfig, sessionId, entry, cfg, pc, invoked, clients, generator,
          error, op, request, calls, response, backend, chunks>>

(***************************************************************************)
(* Bounds of the model.                                                    *)
(***************************************************************************)
\* at most this many environment variables are set (to "" or to a value)
MaxEnvSet == 2
\* at most this many items in a request's content list
MaxItems == 1
\* at most this many parts in one turn
MaxParts == 2
\* at most this many delta events in one backend stream
MaxDeltas == 3
\* at most this many input texts in one embedding request
MaxInputs == 3

(***************************************************************************)
(* JavaScript values.                                                      *)
(***************************************************************************)
Undefined == "<undefined>"

\* JavaScript truthiness of a string-or-undefined value.
Truthy(v) == v # Undefined /\ v # ""

\* a || b
OrElse(a, b) == IF Truthy(a) THEN a ELSE b

\* a ?? b
Coalesce(a, b) == IF a = Undefined THEN b ELSE a

\* Whether message msg (a sequence of tokens) contains token t.
Names(msg, t) == \E i \in 1..Len(msg) : msg[i] = t

NoError == <<>>

(***************************************************************************)
(* Enumerations of contentGenerator.ts.                                    *)
(***************************************************************************)
AuthType ==
    [ LOGIN_WITH_GOOGLE |-> "oauth-personal",
      USE_GEMINI        |-> "gemini-api-key",
      USE_VERTEX_AI     |-> "vertex-ai",
      USE_OPENAI        |-> "openai",
      USE_CLAUDE        |-> "claude",
      USE_GROK          |-> "grok",
      USE_DOUBAO        |-> "doubao",
      USE_QWEN          |-> "qwen",
      USE_KIMI          |-> "kimi",
      USE_DEEPSEEK      |-> "deepseek",
      CLOUD_SHELL       |-> "cloud-shell" ]

AuthTypes == { AuthType[k] : k \in DOMAIN AuthType }

Provider ==
    [ GEMINI   |-> "gemini",
      OPENAI   |-> "openai",
      CLAUDE   |-> "claude",
      GROK     |-> "grok",
      DOUBAO   |-> "doubao",
      QWEN     |-> "qwen",
      KIMI     |-> "kimi",
      DEEPSEEK |-> "deepseek" ]

Providers == { Provider[k] : k \in DOMAIN Provider }

\* Tags a caller can put in config.provider that the enumeration lacks.
UnknownTags == { "mistral" }

(***************************************************************************)
(* The environment.                                                        *)
(***************************************************************************)
KeyVars ==
    { "GEMINI_API_KEY", "GOOGLE_API_KEY", "OPENAI_API_KEY",
      "ANTHROPIC_API_KEY", "GROK_API_KEY", "DOUBAO_API_KEY", "QWEN_API_KEY",
      "KIMI_API_KEY", "DEEPSEEK_API_KEY" }

EnvVars ==
    KeyVars \cup { "GOOGLE_CLOUD_PROJECT", "GOOGLE_CLOUD_LOCATION", "CLI_VERSION" }

\* The value a variable holds when it is set to something non-empty: a
\* different value for each variable, so that taking one for another shows.
EnvValue ==
    [ GEMINI_API_KEY        |-> "gemini-key",
      GOOGLE_API_KEY        |-> "google-key",
      OPENAI_API_KEY        |-> "openai-key",
      ANTHROPIC_API_KEY     |-> "anthropic-key",
      GROK_API_KEY          |-> "grok-key",
      DOUBAO_API_KEY        |-> "doubao-key",
      QWEN_API_KEY          |-> "qwen-key",
      KIMI_API_KEY          |-> "kimi-key",
      DEEPSEEK_API_KEY      |-> "deepseek-key",
      GOOGLE_CLOUD_PROJECT  |-> "my-project",
      GOOGLE_CLOUD_LOCATION |-> "us-central1",
      CLI_VERSION           |-> "1.2.3" ]

\* Environment in which the variables of S are set, those of E to "".
EnvOf(S, E) ==
    [ v \in EnvVars |->
        IF v \in S THEN (IF v \in E THEN "" ELSE EnvValue[v]) ELSE Undefined ]

\* Environments with at most MaxEnvSet variables set, each to "" or its value.
Envs ==
    UNION { { EnvOf(S, E) : E \in SUBSET S } :
            S \in { s \in SUBSET EnvVars : Cardinality(s) <= MaxEnvSet } }

\* Environments over the variables that createContentGenerator and the
\* adapters' createProvider read; every other variable is unset.
FactoryVars == { "OPENAI_API_KEY", "ANTHROPIC_API_KEY", "GROK_API_KEY", "CLI_VERSION" }

FactoryEnvs == { e \in Envs : \A v \in EnvVars \ FactoryVars : e[v] = Undefined }

EmptyEnv == EnvOf({}, {})

(***************************************************************************)
(* The session Config object (external): getModel() and getProxy().        *)
(***************************************************************************)
GcConfigs ==
    { [ model |-> Undefined, proxy |-> Undefined ],
      [ model |-> "custom-model", proxy |-> "http://proxy" ] }

DEFAULT_GEMINI_MODEL == "default-gemini-model"

NoConfig ==
    [ model |-> Undefined, provider |-> Undefined, apiKey |-> Undefined,
      vertexai |-> Undefined, authType |-> Undefined, proxy |-> Undefined ]

(***************************************************************************)
(* createContentGeneratorConfig(config, authType), reading environment e.  *)
(* A field the code never assigns is Undefined.  getEffectiveModel is an   *)
(* import whose result the code discards; it does not touch the config.    *)
(***************************************************************************)
\* The if-chain with USE_CLAUDE reading the OpenAI key.
ModeKeyVar_ClaudeReadsOpenai(authType) ==
    CASE authType = AuthType.USE_GEMINI   -> "GEMINI_API_KEY"
      [] authType = AuthType.USE_OPENAI   -> "OPENAI_API_KEY"
      [] authType = AuthType.USE_CLAUDE   -> "OPENAI_API_KEY"
      [] authType = AuthType.USE_GROK     -> "GROK_API_KEY"
      [] authType = AuthType.USE_DOUBAO   -> "DOUBAO_API_KEY"
      [] authType = AuthType.USE_QWEN     -> "QWEN_API_KEY"
      [] authType = AuthType.USE_KIMI     -> "KIMI_API_KEY"
      [] authType = AuthType.USE_DEEPSEEK -> "DEEPSEEK_API_KEY"
      [] OTHER                            -> Undefined

\* The environment variable each key-based auth mode takes its key from, in
\* the order of the code's if-chain (USE_VERTEX_AI is handled apart).
ModeKeyVar(authType) ==
    CASE authType = AuthType.USE_GEMINI   -> "GEMINI_API_KEY"
      [] authType = AuthType.USE_OPENAI   -> "OPENAI_API_KEY"
      [] authType = AuthType.USE_CLAUDE   -> "ANTHROPIC_API_KEY"
      [] authType = AuthType.USE_GROK     -> "GROK_API_KEY"
      [] authType = AuthType.USE_DOUBAO   -> "DOUBAO_API_KEY"
      [] authType = AuthType.USE_QWEN     -> "QWEN_API_KEY"
      [] authType = AuthType.USE_KIMI     -> "KIMI_API_KEY"
      [] authType = AuthType.USE_DEEPSEEK -> "DEEPSEEK_API_KEY"
      [] OTHER                            -> Undefined

\* A resolution that also derives the provider tag from the auth mode, which
\* the code does not do.
createContentGeneratorConfig_SetsProvider(config, authType, e) ==
    LET tag == CASE authType = AuthType.USE_OPENAI   -> Provider.OPENAI
                 [] authType = AuthType.USE_CLAUDE   -> Provider.CLAUDE
                 [] authType = AuthType.USE_GROK     -> Provider.GROK
                 [] authType = AuthType.USE_DOUBAO   -> Provider.DOUBAO
                 [] authType = AuthType.USE_QWEN     -> Provider.QWEN
                 [] authType = AuthType.USE_KIMI     -> Provider.KIMI
                 [] authType = AuthType.USE_DEEPSEEK -> Provider.DEEPSEEK
                 [] OTHER                            -> Undefined
        key == IF authType = AuthType.USE_VERTEX_AI THEN "GOOGLE_API_KEY"
               ELSE ModeKeyVar(authType)
    IN  [ model |-> OrElse(config.model, DEFAULT_GEMINI_MODEL), provider |-> tag,
          apiKey |-> IF key = Undefined THEN Undefined ELSE OrElse(e[key], Undefined),
          vertexai |-> Undefined, authType |-> authType, proxy |-> config.proxy ]

createContentGeneratorConfig(config, authType, e) ==
    LET geminiApiKey        == OrElse(e["GEMINI_API_KEY"], Undefined)
        googleApiKey        == OrElse(e["GOOGLE_API_KEY"], Undefined)
        googleCloudProject  == OrElse(e["GOOGLE_CLOUD_PROJECT"], Undefined)
        googleCloudLocation == OrElse(e["GOOGLE_CLOUD_LOCATION"], Undefined)
        effectiveModel      == OrElse(config.model, DEFAULT_GEMINI_MODEL)
        base == [ model |-> effectiveModel, provider |-> Undefined,
                  apiKey |-> Undefined, vertexai |-> Undefined,
                  authType |-> authType, proxy |-> config.proxy ]
    IN  IF authType = AuthType.LOGIN_WITH_GOOGLE \/ authType = AuthType.CLOUD_SHELL
          THEN base
        ELSE IF authType = AuthType.USE_GEMINI /\ Truthy(geminiApiKey)
          THEN [ base EXCEPT !.apiKey = geminiApiKey, !.vertexai = "false" ]
        ELSE IF /\ ModeKeyVar(authType) # Undefined
                /\ authType # AuthType.USE_GEMINI
                /\ Truthy(OrElse(e[ModeKeyVar(authType)], Undefined))
          THEN [ base EXCEPT !.apiKey = OrElse(e[ModeKeyVar(authType)], Undefined) ]
        ELSE IF /\ authType = AuthType.USE_VERTEX_AI
                /\ \/ Truthy(googleApiKey)
                   \/ (Truthy(googleCloudProject) /\ Truthy(googleCloudLocation))
          THEN [ base EXCEPT !.apiKey = googleApiKey, !.vertexai = "true" ]
        ELSE base

(***************************************************************************)
(* The adapters' constructors.  Each returns what the call leaves behind:  *)
(* the error it rejected with (NoError when it resolved), the backend      *)
(* clients it constructed, and the kind of generator it returned.          *)
(***************************************************************************)
NoGenerator == "none"

\* `GeminiCLI/${version} (${process.platform}; ${process.arch})`
UserAgent(e) ==
    << "GeminiCLI/", OrElse(e["CLI_VERSION"], "process.version"),
       " (", "process.platform", "; ", "process.arch", ")" >>

NoHeaders == <<>>

Client(sdk, apiKey, vertexai, userAgent) ==
    [ sdk |-> sdk, apiKey |-> apiKey, vertexai |-> vertexai, userAgent |-> userAgent ]

Rejected(msg) == [ error |-> msg, clients |-> <<>>, generator |-> NoGenerator ]

Returned(kind, cl) == [ error |-> NoError, clients |-> cl, generator |-> kind ]

\* openaiProvider.ts createProvider
createOpenaiProvider(config, e) ==
    LET apiKey == OrElse(config.apiKey, e["OPENAI_API_KEY"])
    IN  IF ~Truthy(apiKey)
          THEN Rejected(<< "OPENAI_API_KEY", " is required for ", "OpenAI", " provider" >>)
          ELSE Returned("openai", << Client("OpenAI", apiKey, Undefined, NoHeaders) >>)

\* createProvider of the OpenAI-template adapter
createTemplateProvider(config, e) ==
    LET apiKey == OrElse(config.apiKey, e["OPENAI_API_KEY"])
    IN  IF ~Truthy(apiKey)
          THEN Rejected(<< "OPENAI_API_KEY", " is required for ", "OpenAI", " provider" >>)
          ELSE Returned("openaiTemplate", << Client("OpenAI", apiKey, Undefined, NoHeaders) >>)

\* claudeProvider.ts createProvider
createClaudeProvider(config, e) ==
    LET apiKey == OrElse(config.apiKey, e["ANTHROPIC_API_KEY"])
    IN  IF ~Truthy(apiKey)
          THEN Rejected(<< "ANTHROPIC_API_KEY", " is required for ", "Claude", " provider" >>)
          ELSE Returned("claude", << Client("Anthropic", apiKey, Undefined, NoHeaders) >>)

\* grokProvider.ts createProvider: reads neither the config nor the
\* environment, constructs no client, and never rejects.
createGrokProvider(config, e) == Returned("grok", <<>>)

\* googleGenaiProvider.ts createProvider: returns googleGenAI.models.
createGoogleGenaiProvider(config, e) ==
    Returned("googleGenai",
             << Client("GoogleGenAI",
                       IF config.apiKey = "" THEN Undefined ELSE config.apiKey,
                       config.vertexai, UserAgent(e)) >>)

\* The constructors whose code is outside this core: the code-assist
\* generator factory and the doubao, qwen, kimi and deepseek adapters.  Only
\* the call is modelled; the generator they return is opaque.
ExternalConstructors ==
    { "createCodeAssistContentGenerator", "createDoubaoProvider",
      "createQwenProvider", "createKimiProvider", "createDeepseekProvider" }

Construct(fn, config, e) ==
    CASE fn = "createOpenaiProvider"      -> createOpenaiProvider(config, e)
      [] fn = "createClaudeProvider"      -> createClaudeProvider(config, e)
      [] fn = "createGrokProvider"        -> createGrokProvider(config, e)
      [] fn = "createGoogleGenaiProvider" -> createGoogleGenaiProvider(config, e)
      [] fn \in ExternalConstructors      -> Returned(fn, <<>>)

(***************************************************************************)
(* createContentGenerator(config, gcConfig, sessionId).                    *)
(***************************************************************************)
Throw == "<throw>"

\* The switch with its default branch falling through to the Gemini adapter.
ConstructorOf_DefaultGemini(provider, authType) ==
    CASE provider = Provider.OPENAI   -> "createOpenaiProvider"
      [] provider = Provider.CLAUDE   -> "createClaudeProvider"
      [] provider = Provider.GROK     -> "createGrokProvider"
      [] provider = Provider.DOUBAO   -> "createDoubaoProvider"
      [] provider = Provider.QWEN     -> "createQwenProvider"
      [] provider = Provider.KIMI     -> "createKimiProvider"
      [] provider = Provider.DEEPSEEK -> "createDeepseekProvider"
      [] OTHER ->
           IF authType = AuthType.LOGIN_WITH_GOOGLE \/ authType = AuthType.CLOUD_SHELL
             THEN "createCodeAssistContentGenerator"
             ELSE "createGoogleGenaiProvider"

\* The switch with the Gemini branch forgetting CLOUD_SHELL.
ConstructorOf_NoCloudShell(provider, authType) ==
    CASE provider = Provider.GEMINI ->
           IF authType = AuthType.LOGIN_WITH_GOOGLE
             THEN "createCodeAssistContentGenerator"
             ELSE "createGoogleGenaiProvider"
      [] provider = Provider.OPENAI   -> "createOpenaiProvider"
      [] provider = Provider.CLAUDE   -> "createClaudeProvider"
      [] provider = Provider.GROK     -> "createGrokProvider"
      [] provider = Provider.DOUBAO   -> "createDoubaoProvider"
      [] provider = Provider.QWEN     -> "createQwenProvider"
      [] provider = Provider.KIMI     -> "createKimiProvider"
      [] provider = Provider.DEEPSEEK -> "createDeepseekProvider"
      [] OTHER                        -> Throw

\* The switch on the provider tag: the constructor the call is handed to, or
\* Throw for the default branch.
ConstructorOf(provider, authType) ==
    CASE provider = Provider.GEMINI ->
           IF authType = AuthType.LOGIN_WITH_GOOGLE \/ authType = AuthType.CLOUD_SHELL
             THEN "createCodeAssistContentGenerator"
             ELSE "createGoogleGenaiProvider"
      [] provider = Provider.OPENAI   -> "createOpenaiProvider"
      [] provider = Provider.CLAUDE   -> "createClaudeProvider"
      [] provider = Provider.GROK     -> "createGrokProvider"
      [] provider = Provider.DOUBAO   -> "createDoubaoProvider"
      [] provider = Provider.QWEN     -> "createQwenProvider"
      [] provider = Provider.KIMI     -> "createKimiProvider"
      [] provider = Provider.DEEPSEEK -> "createDeepseekProvider"
      [] OTHER                        -> Throw

\* The arguments of a constructor call.  The code-assist factory gets
\* (httpOptions, config.authType, gcConfig, sessionId); every adapter gets
\* (config, gcConfig, sessionId).  An argument a call does not have is
\* NoConfig, NoHeaders or Undefined.
Invocation(fn, config, gc, sid, e) ==
    IF fn = "createCodeAssistContentGenerator"
      THEN [ fn |-> fn, config |-> NoConfig, httpOptions |-> UserAgent(e),
             authType |-> config.authType, gcConfig |-> gc, sessionId |-> sid ]
      ELSE [ fn |-> fn, config |-> config, httpOptions |-> NoHeaders,
             authType |-> Undefined, gcConfig |-> gc, sessionId |-> sid ]

SessionIds == { Undefined, "session-1" }

NoRequest == [ model |-> Undefined ]

NoResponse ==
    [ kind |-> "none", candidates |-> <<>>, totalTokens |-> "<absent>", embeddings |-> <<>> ]

createContentGenerator ==
    /\ pc = "configured"
    /\ entry' = "createContentGenerator"
    /\ LET provider == Coalesce(cfg.provider, Provider.GEMINI)
           fn       == ConstructorOf(provider, cfg.authType)
       IN  IF fn = Throw
             THEN /\ error' = << "Error creating contentGenerator: Unsupported provider: ",
                                 provider >>
                  /\ pc' = "failed"
                  /\ UNCHANGED <<invoked, clients, generator>>
             ELSE LET made == Construct(fn, cfg, env)
                  IN  /\ invoked' = Append(invoked, Invocation(fn, cfg, gcConfig, sessionId, env))
                      /\ clients' = clients \o made.clients
                      /\ generator' = made.generator
                      /\ error' = made.error
                      /\ pc' = IF made.error = NoError THEN "created" ELSE "failed"
    /\ UNCHANGED <<env, gcConfig, sessionId, cfg, op, request, calls, response,
                   backend, chunks>>

\* A direct call of the OpenAI-template adapter's exported createProvider.
createProviderDirect ==
    /\ pc = "configured"
    /\ entry' = "createProvider"
    /\ LET made == createTemplateProvider(cfg, env)
       IN  /\ clients' = clients \o made.clients
           /\ generator' = made.generator
           /\ error' = made.error
           /\ pc' = IF made.error = NoError THEN "created" ELSE "failed"
    /\ UNCHANGED <<env, gcConfig, sessionId, cfg, invoked, op, request, calls, response,
                   backend, chunks>>

\* The caller resolves the session's config for an auth mode.
resolveConfig(authType) ==
    /\ pc = "start"
    /\ cfg' = createContentGeneratorConfig(gcConfig, authType, env)
    /\ pc' = "configured"
    /\ UNCHANGED <<env, gcConfig, sessionId, entry, invoked, clients, generator, error,
                   op, request, calls, response, backend, chunks>>

\* The caller writes a ContentGeneratorConfig itself.
CallerKeys == { Undefined, "", "config-key" }

buildConfig(provider, apiKey, authType) ==
    /\ pc = "start"
    /\ cfg' = [ model |-> OrElse(gcConfig.model, DEFAULT_GEMINI_MODEL),
                provider |-> provider, apiKey |-> apiKey, vertexai |-> Undefined,
                authType |-> authType, proxy |-> gcConfig.proxy ]
    /\ pc' = "configured"
    /\ UNCHANGED <<env, gcConfig, sessionId, entry, invoked, clients, generator, error,
                   op, request, calls, response, backend, chunks>>

(***************************************************************************)
(* Requests (GenerateContentParameters).  A text is a sequence of          *)
(* characters.                                                             *)
(***************************************************************************)
Texts == { <<"a">>, <<"b">> }

\* The texts of embedding requests.
EmbedTexts == { <<"a">>, <<"b">>, <<"c">> }

RECURSIVE SeqsUpTo(_, _)
\* All sequences over S of length at most n.
SeqsUpTo(S, n) ==
    IF n = 0 THEN { <<>> }
    ELSE LET shorter == SeqsUpTo(S, n - 1)
         IN  shorter \cup { Append(q, x) : q \in { r \in shorter : Len(r) = n - 1 }, x \in S }

\* A part: a text part, or a part of another kind (inline data, a function
\* call, ...), which has no text field.
Parts == { [ type |-> "text", text |-> t ] : t \in Texts }
             \cup { [ type |-> "other", text |-> <<>> ] }

\* An item of a content list: a bare string, or an object with or without a
\* role field and with or without a parts field.
Items ==
    { [ type |-> "string", text |-> t, hasRole |-> FALSE, role |-> Undefined,
        hasParts |-> FALSE, parts |-> <<>> ] : t \in Texts }
    \cup
    { [ type |-> "object", text |-> <<>>, hasRole |-> r # Undefined, role |-> r,
        hasParts |-> TRUE, parts |-> ps ] :
        r \in { Undefined, "user", "model" }, ps \in SeqsUpTo(Parts, MaxParts) }
    \cup
    { [ type |-> "object", text |-> <<>>, hasRole |-> r # Undefined, role |-> r,
        hasParts |-> FALSE, parts |-> <<>> ] : r \in { Undefined, "user", "model" } }

\* request.contents (ContentListUnion | undefined).
ContentsOf(kind, text, items) == [ kind |-> kind, text |-> text, items |-> items ]

NoContents == ContentsOf("undefined", <<>>, <<>>)

AllContents ==
    { NoContents }
    \cup { ContentsOf("string", t, <<>>) : t \in Texts }
    \cup { ContentsOf("object", <<>>, <<i>>) : i \in { j \in Items : j.type = "object" } }
    \cup { ContentsOf("array", <<>>, is) : is \in SeqsUpTo(Items, MaxItems) }

RequestOf(contents, temperature, topP, maxOutputTokens) ==
    [ model |-> "the-model", contents |-> contents, temperature |-> temperature,
      topP |-> topP, maxOutputTokens |-> maxOutputTokens ]

\* Every content list, without generation options.
ContentRequests == { RequestOf(c, Undefined, Undefined, Undefined) : c \in AllContents }

\* Every combination of generation options, on one content list.
OptionRequests ==
    { RequestOf(ContentsOf("string", <<"a">>, <<>>), t, p, m) :
      t \in { Undefined, "0.7" }, p \in { Undefined, "0.9" }, m \in { Undefined, "256" } }

StreamRequests ==
    { RequestOf(c, t, Undefined, Undefined) :
      c \in { NoContents, ContentsOf("string", <<"a">>, <<>>) }, t \in { Undefined, "0.7" } }

(***************************************************************************)
(* Translation of request.contents to the backend's message list.  A       *)
(* translation is [threw, messages]: threw when the code raises TypeError. *)
(***************************************************************************)
RECURSIVE Join(_)
\* parts.join(''): the texts of ts, concatenated in order.
Join(ts) == IF ts = <<>> THEN <<>> ELSE Head(ts) \o Join(Tail(ts))

\* String(item) of an object.
ObjectObject == << "[object Object]" >>

\* p.text || ''
PartText(p) == IF p.type = "text" THEN p.text ELSE <<>>

Message(role, content) == [ role |-> role, content |-> content ]

Translated(ms) == [ threw |-> FALSE, messages |-> ms ]

\* The items the code maps over: contents itself when it is an array, else
\* [contents].
ListOf(contents) ==
    CASE contents.kind = "array"  -> contents.items
      [] contents.kind = "object" -> contents.items
      [] contents.kind = "string" ->
           << [ type |-> "string", text |-> contents.text, hasRole |-> FALSE,
                role |-> Undefined, hasParts |-> FALSE, parts |-> <<>> ] >>
      [] OTHER -> <<>>

\* openaiProvider.ts toOpenAIMessages, one item of the list.
toOpenAIMessage(item) ==
    IF item.type = "string" \/ ~item.hasRole
      THEN Message("user", IF item.type = "string" THEN item.text ELSE ObjectObject)
      ELSE Message(item.role,
                   Join([ i \in 1..Len(item.parts) |-> PartText(item.parts[i]) ]))

\* openaiProvider.ts toOpenAIMessages
toOpenAIMessages(contents) ==
    IF contents.kind = "undefined" THEN Translated(<<>>)
    ELSE IF contents.kind = "string"
      THEN Translated(<< Message("user", contents.text) >>)
    ELSE LET list == ListOf(contents)
         IN  Translated([ i \in 1..Len(list) |-> toOpenAIMessage(list[i]) ])

\* claudeProvider.ts toAnthropicMessages, one item of the list.
toAnthropicMessage(item) ==
    IF item.type = "string"
      THEN Message("user", item.text)
      ELSE Message(item.role,
                   Join([ i \in 1..Len(item.parts) |-> PartText(item.parts[i]) ]))

\* claudeProvider.ts toAnthropicMessages
toAnthropicMessages(contents) ==
    LET list == ListOf(contents)
    IN  Translated([ i \in 1..Len(list) |-> toAnthropicMessage(list[i]) ])

\* The OpenAI-template adapter's toOpenAIMessages: contents.map(...) over
\* what request.contents || [] gives.  A string or a single object has no
\* map method (TypeError); a string item has neither role nor parts.
toTemplateMessages(contents) ==
    IF contents.kind = "undefined" THEN Translated(<<>>)
    ELSE IF contents.kind # "array" THEN [ threw |-> TRUE, messages |-> <<>> ]
    ELSE Translated([ i \in 1..Len(contents.items) |->
           LET c == contents.items[i]
           IN  Message(c.role,
                       Join([ j \in 1..Len(c.parts) |-> PartText(c.parts[j]) ])) ])

(***************************************************************************)
(* The backend.  A chat completion either fails with the backend's error   *)
(* or returns a list of choices (OpenAI) or content blocks (Anthropic),    *)
(* each with or without text, and a token count or none.                   *)
(***************************************************************************)
BackendError == << "backend error" >>

TypeError == << "TypeError: ", "contents.map is not a function" >>

NoText == [ hasContent |-> FALSE, content |-> <<>> ]

TextOf(t) == [ hasContent |-> TRUE, content |-> t ]

ChoiceLists ==
    { <<>>, << NoText >>, << TextOf(<<>>) >>, << TextOf(<<"x">>) >>,
      << TextOf(<<"x">>), TextOf(<<"y">>) >>, << NoText, TextOf(<<"y">>) >> }

Completions ==
    { [ ok |-> FALSE, choices |-> <<>>, total_tokens |-> Undefined ] }
    \cup { [ ok |-> TRUE, choices |-> cs, total_tokens |-> n ] :
           cs \in ChoiceLists, n \in { Undefined, "42" } }

\* choices[0]?.message?.content || ''  (and content?.[0]?.text || '')
FirstText(choices) ==
    IF choices = <<>> THEN <<>>
    ELSE IF choices[1].hasContent THEN choices[1].content ELSE <<>>

\* A key the call's argument object does not have.
Absent == "<absent>"

BackendCall(api, model, messages, temperature, top_p, max_tokens, stream, input) ==
    [ api |-> api, model |-> model, messages |-> messages, temperature |-> temperature,
      top_p |-> top_p, max_tokens |-> max_tokens, stream |-> stream, input |-> input ]

\* { candidates: [ { content: { role: 'model', parts: [ { text } ] } } ], usageMetadata }
Candidate(text) == [ role |-> "model", parts |-> << text >> ]

ResponseOf(candidates, totalTokens) ==
    [ kind |-> "response", candidates |-> candidates, totalTokens |-> totalTokens,
      embeddings |-> <<>> ]

RejectedResponse ==
    [ kind |-> "rejected", candidates |-> <<>>, totalTokens |-> Absent, embeddings |-> <<>> ]

Adapters == { "openai", "openaiTemplate", "claude", "grok" }

\* grokProvider.ts: every operation throws this.
GrokError == << "Provider not implemented" >>

opFrame ==
    UNCHANGED <<env, gcConfig, sessionId, entry, cfg, pc, invoked, clients, generator>>

\* What one call of a Facade operation leaves behind: the error it rejected
\* with, the backend calls it issued, the backend's answers to them, and
\* what it resolved to.
Outcome(err, issued, answers, resp) ==
    [ error |-> err, calls |-> issued, answers |-> answers, response |-> resp ]

RejectWith(err, issued, answers) == Outcome(err, issued, answers, RejectedResponse)

ResolveWith(resp, issued, answers) == Outcome(NoError, issued, answers, resp)

\* The messages the adapter of this kind sends for a content list.
translate(kind, contents) ==
    CASE kind = "openai"         -> toOpenAIMessages(contents)
      [] kind = "openaiTemplate" -> toTemplateMessages(contents)
      [] kind = "claude"         -> toAnthropicMessages(contents)

(***************************************************************************)
(* generateContent(request), with the backend's answer `completion`.       *)
(***************************************************************************)
\* openaiProvider.ts generateContent
openai_generateContent(req, completion) ==
    LET tr   == toOpenAIMessages(req.contents)
        call == BackendCall("chat.completions.create", req.model, tr.messages,
                            req.temperature, req.topP, Absent, Absent, Absent)
    IN  IF ~completion.ok THEN RejectWith(BackendError, << call >>, << completion >>)
        ELSE ResolveWith(ResponseOf(<< Candidate(FirstText(completion.choices)) >>,
                                    completion.total_tokens),
                         << call >>, << completion >>)

\* generateContent of the OpenAI-template adapter
template_generateContent(req, completion) ==
    LET tr   == toTemplateMessages(req.contents)
        call == BackendCall("chat.completions.create", req.model, tr.messages,
                            req.temperature, req.topP, Absent, Absent, Absent)
    IN  IF tr.threw THEN RejectWith(TypeError, <<>>, <<>>)
        ELSE IF ~completion.ok THEN RejectWith(BackendError, << call >>, << completion >>)
        ELSE ResolveWith(ResponseOf(<< Candidate(FirstText(completion.choices)) >>,
                                    completion.total_tokens),
                         << call >>, << completion >>)

\* claudeProvider.ts generateContent
claude_generateContent(req, completion) ==
    LET tr   == toAnthropicMessages(req.contents)
        call == BackendCall("messages.create", req.model, tr.messages, req.temperature,
                            Absent, Coalesce(req.maxOutputTokens, "1024"), Absent, Absent)
    IN  IF ~completion.ok THEN RejectWith(BackendError, << call >>, << completion >>)
        ELSE ResolveWith(ResponseOf(<< Candidate(FirstText(completion.choices)) >>, Absent),
                         << call >>, << completion >>)

\* grokProvider.ts generateContent
grok_generateContent(req, completion) == RejectWith(GrokError, <<>>, <<>>)

\* The calls the model makes: every content list with a failing and a
\* succeeding backend, every combination of options with every completion.
GenerateInputs ==
    (ContentRequests \X { c \in Completions : c.choices \in { <<>>, << TextOf(<<"x">>) >> }
                                              /\ c.total_tokens = Undefined })
    \cup (OptionRequests \X Completions)

\* The caller's operation has the outcome o.
finish(o) ==
    /\ error' = o.error
    /\ calls' = o.calls
    /\ backend' = o.answers
    /\ response' = o.response
    /\ chunks' = <<>>

generateContent(req, completion) ==
    /\ pc = "created"
    /\ generator \in Adapters
    /\ op = "none"
    /\ op' = "generateContent"
    /\ request' = req
    /\ finish(CASE generator = "openai"         -> openai_generateContent(req, completion)
                [] generator = "openaiTemplate" -> template_generateContent(req, completion)
                [] generator = "claude"         -> claude_generateContent(req, completion)
                [] generator = "grok"           -> grok_generateContent(req, completion))
    /\ opFrame

(***************************************************************************)
(* generateContentStream(request) and the iterator it returns.  The        *)
(* iterator is lazy: each next() of the consumer takes one event from the  *)
(* backend's stream, or finds that the stream has ended.  `backend` holds  *)
(* the events delivered so far and `chunks` what the iterator yielded.     *)
(***************************************************************************)
DeltaEvents ==
    { <<>>, << NoText >>, << TextOf(<<>>) >>, << TextOf(<<"H", "e", "l">>) >>,
      << TextOf(<<"l", "o">>) >> }

StreamOf(state) ==
    [ kind |-> state, candidates |-> <<>>, totalTokens |-> Absent, embeddings |-> <<>> ]

\* openaiProvider.ts generateContentStream, up to the returned iterator;
\* ok is whether the backend's create call succeeds.
openai_generateContentStream(req, ok) ==
    LET tr   == toOpenAIMessages(req.contents)
        call == BackendCall("chat.completions.create", req.model, tr.messages,
                            req.temperature, req.topP, Absent, "true", Absent)
    IN  IF ~ok THEN RejectWith(BackendError, << call >>, <<>>)
        ELSE ResolveWith(StreamOf("stream"), << call >>, <<>>)

\* generateContentStream of the OpenAI-template adapter
template_generateContentStream(req, ok) ==
    LET tr   == toTemplateMessages(req.contents)
        call == BackendCall("chat.completions.create", req.model, tr.messages,
                            req.temperature, req.topP, Absent, "true", Absent)
    IN  IF tr.threw THEN RejectWith(TypeError, <<>>, <<>>)
        ELSE IF ~ok THEN RejectWith(BackendError, << call >>, <<>>)
        ELSE ResolveWith(StreamOf("stream"), << call >>, <<>>)

\* claudeProvider.ts generateContentStream
claude_generateContentStream(req, ok) ==
    RejectWith(<< "Streaming", " not implemented for ", "Claude", " provider" >>, <<>>, <<>>)

\* grokProvider.ts generateContentStream
grok_generateContentStream(req, ok) == RejectWith(GrokError, <<>>, <<>>)

generateContentStream(req, ok) ==
    /\ pc = "created"
    /\ generator \in Adapters
    /\ op = "none"
    /\ op' = "generateContentStream"
    /\ request' = req
    /\ finish(CASE generator = "openai"         -> openai_generateContentStream(req, ok)
                [] generator = "openaiTemplate" -> template_generateContentStream(req, ok)
                [] generator = "claude"         -> claude_generateContentStream(req, ok)
                [] generator = "grok"           -> grok_generateContentStream(req, ok))
    /\ opFrame

\* The chunk the iterator yields for one backend event:
\* chunk.choices[0]?.delta?.content || ''
chunkOf(event) == [ candidates |-> << Candidate(FirstText(event)) >> ]

\* The text of a yielded chunk.
ChunkText(chunk) == chunk.candidates[1].parts[1]

\* next() of an iterator that accumulates the text seen so far.
streamNext_Cumulative(event) ==
    /\ op = "generateContentStream"
    /\ response.kind = "stream"
    /\ Len(backend) < MaxDeltas
    /\ backend' = Append(backend, event)
    /\ chunks' = Append(chunks,
                        [ candidates |->
                            << Candidate((IF chunks = <<>> THEN <<>>
                                          ELSE ChunkText(chunks[Len(chunks)]))
                                         \o FirstText(event)) >> ])
    /\ UNCHANGED <<op, request, calls, response, error>>
    /\ opFrame

\* next(): the backend delivers an event and the iterator yields its chunk.
streamNext(event) ==
    /\ op = "generateContentStream"
    /\ response.kind = "stream"
    /\ Len(backend) < MaxDeltas
    /\ backend' = Append(backend, event)
    /\ chunks' = Append(chunks, chunkOf(event))
    /\ UNCHANGED <<op, request, calls, response, error>>
    /\ opFrame

\* next(): the backend's stream has ended, and so does the iterator.
streamEnd ==
    /\ op = "generateContentStream"
    /\ response.kind = "stream"
    /\ response' = StreamOf("streamEnded")
    /\ UNCHANGED <<op, request, calls, error, backend, chunks>>
    /\ opFrame

\* next(): the backend's stream fails, and the iterator rejects with its error.
streamFail ==
    /\ op = "generateContentStream"
    /\ response.kind = "stream"
    /\ response' = StreamOf("streamFailed")
    /\ error' = BackendError
    /\ UNCHANGED <<op, request, calls, backend, chunks>>
    /\ opFrame

(***************************************************************************)
(* countTokens(request)                                                    *)
(***************************************************************************)
\* openaiProvider.ts countTokens
openai_countTokens ==
    RejectWith(<< "countTokens", " is not implemented for ", "OpenAI", " provider" >>,
               <<>>, <<>>)

\* countTokens of the OpenAI-template adapter
template_countTokens ==
    RejectWith(<< "countTokens", " is not implemented for ", "OpenAI", " provider" >>,
               <<>>, <<>>)

\* claudeProvider.ts countTokens
claude_countTokens ==
    RejectWith(<< "countTokens", " is not implemented for ", "Claude", " provider" >>,
               <<>>, <<>>)

\* grokProvider.ts countTokens
grok_countTokens == RejectWith(GrokError, <<>>, <<>>)

countTokens ==
    /\ pc = "created"
    /\ generator \in Adapters
    /\ op = "none"
    /\ op' = "countTokens"
    /\ request' = NoRequest
    /\ finish(CASE generator = "openai"         -> openai_countTokens
                [] generator = "openaiTemplate" -> template_countTokens
                [] generator = "claude"         -> claude_countTokens
                [] generator = "grok"           -> grok_countTokens)
    /\ opFrame

(***************************************************************************)
(* embedContent(request)                                                   *)
(***************************************************************************)
StringItem(t) ==
    [ type |-> "string", text |-> t, hasRole |-> FALSE, role |-> Undefined,
      hasParts |-> FALSE, parts |-> <<>> ]

\* request.contents of an embedding request: one text or a list of texts.
EmbedInputs ==
    { ContentsOf("string", t, <<>>) : t \in EmbedTexts }
    \cup { ContentsOf("array", <<>>, is) :
           is \in SeqsUpTo({ StringItem(t) : t \in EmbedTexts }, MaxInputs) }

\* The texts of an embedding input, in order.
InputTexts(contents) ==
    IF contents.kind = "string" THEN << contents.text >>
    ELSE [ i \in 1..Len(contents.items) |-> contents.items[i].text ]

\* The backend's embedding of a text.
EmbeddingOf(t) == << "embedding of" >> \o t

\* What the backend's embeddings endpoint returns in res.data: one entry
\* per input, in the order of the inputs.
BackendEmbeddings(contents) ==
    LET ts == InputTexts(contents)
    IN  [ i \in 1..Len(ts) |-> [ embedding |-> EmbeddingOf(ts[i]), index |-> i - 1 ] ]

\* The embeddings taken from res.data in reverse.
embeddingsOf_Reversed(data) ==
    [ i \in 1..Len(data) |-> [ values |-> data[Len(data) + 1 - i].embedding ] ]

\* res.data.map((e) => ({ values: e.embedding }))
embeddingsOf(data) == [ i \in 1..Len(data) |-> [ values |-> data[i].embedding ] ]

EmbedResponse(embeddings) ==
    [ kind |-> "response", candidates |-> <<>>, totalTokens |-> Absent,
      embeddings |-> embeddings ]

\* openaiProvider.ts embedContent
openai_embedContent(req, ok) ==
    LET call == BackendCall("embeddings.create", req.model, <<>>, Absent, Absent, Absent,
                            Absent, req.contents)
    IN  IF ~ok THEN RejectWith(BackendError, << call >>, <<>>)
        ELSE ResolveWith(EmbedResponse(embeddingsOf(BackendEmbeddings(req.contents))),
                         << call >>, <<>>)

\* embedContent of the OpenAI-template adapter
template_embedContent(req, ok) ==
    LET call == BackendCall("embeddings.create", req.model, <<>>, Absent, Absent, Absent,
                            Absent, req.contents)
    IN  IF ~ok THEN RejectWith(BackendError, << call >>, <<>>)
        ELSE ResolveWith(EmbedResponse(embeddingsOf(BackendEmbeddings(req.contents))),
                         << call >>, <<>>)

\* claudeProvider.ts embedContent
claude_embedContent(req, ok) ==
    RejectWith(<< "embedContent", " is not implemented for ", "Claude", " provider" >>,
               <<>>, <<>>)

\* grokProvider.ts embedContent
grok_embedContent(req, ok) == RejectWith(GrokError, <<>>, <<>>)

embedContent(contents, ok) ==
    /\ pc = "created"
    /\ generator \in Adapters
    /\ op = "none"
    /\ op' = "embedContent"
    /\ request' = RequestOf(contents, Undefined, Undefined, Undefined)
    /\ LET req == RequestOf(contents, Undefined, Undefined, Undefined)
       IN  finish(CASE generator = "openai"         -> openai_embedContent(req, ok)
                    [] generator = "openaiTemplate" -> template_embedContent(req, ok)
                    [] generator = "claude"         -> claude_embedContent(req, ok)
                    [] generator = "grok"           -> grok_embedContent(req, ok))
    /\ opFrame

\* The caller has taken the operation's outcome; the generator is idle again.
settle ==
    /\ op # "none"
    /\ op' = "none"
    /\ request' = NoRequest
    /\ calls' = <<>>
    /\ response' = NoResponse
    /\ error' = NoError
    /\ backend' = <<>>
    /\ chunks' = <<>>
    /\ opFrame

InitSession ==
    /\ gcConfig \in GcConfigs
    /\ sessionId \in SessionIds
    /\ entry = "none"
    /\ cfg = NoConfig
    /\ pc = "start"
    /\ invoked = <<>>
    /\ clients = <<>>
    /\ generator = NoGenerator
    /\ error = NoError
    /\ op = "none"
    /\ request = NoRequest
    /\ calls = <<>>
    /\ response = NoResponse
    /\ backend = <<>>
    /\ chunks = <<>>

(***************************************************************************)
(* Spec: a caller-written config handed to the factory, or to the          *)
(* OpenAI-template adapter's createProvider.                               *)
(***************************************************************************)
Init == env \in FactoryEnvs /\ InitSession

Next ==
    \/ \E p \in Providers \cup UnknownTags \cup {Undefined}, k \in CallerKeys,
          a \in AuthTypes \cup {Undefined} : buildConfig(p, k, a)
    \/ createContentGenerator
    \/ createProviderDirect

Spec == Init /\ [][Next]_vars

(***************************************************************************)
(* SpecResolve: the config resolved from the environment, handed to the    *)
(* factory unchanged.                                                      *)
(***************************************************************************)
InitResolve == env \in Envs /\ InitSession

NextResolve ==
    \/ \E a \in AuthTypes \cup {Undefined} : resolveConfig(a)
    \/ createContentGenerator

SpecResolve == InitResolve /\ [][NextResolve]_vars

(***************************************************************************)
(* SpecOps: the Facade operations on the generator of each adapter, built  *)
(* from a config that carries a key.                                       *)
(***************************************************************************)
InitOps ==
    /\ env = EmptyEnv
    /\ InitSession
    /\ gcConfig = [ model |-> Undefined, proxy |-> Undefined ]
    /\ sessionId = Undefined

NextOps ==
    \/ \E p \in { Provider.OPENAI, Provider.CLAUDE, Provider.GROK } :
          buildConfig(p, "config-key", Undefined)
    \/ createContentGenerator
    \/ createProviderDirect
    \/ op = "none" /\ \E in \in GenerateInputs : generateContent(in[1], in[2])
    \/ op = "none" /\ \E req \in StreamRequests, ok \in BOOLEAN : generateContentStream(req, ok)
    \/ \E event \in DeltaEvents : streamNext(event)
    \/ streamEnd
    \/ streamFail
    \/ countTokens
    \/ op = "none" /\ \E contents \in EmbedInputs, ok \in BOOLEAN : embedContent(contents, ok)
    \/ settle

SpecOps == InitOps /\ [][NextOps]_vars

(***************************************************************************)
(* Properties.                                                             *)
(***************************************************************************)
Created == pc \in { "created", "failed" }

\* The constructor that ran last: the factory's, or the directly called one.
LastConstructor ==
    IF entry = "createProvider" THEN "createTemplateProvider"
    ELSE IF invoked = <<>> THEN "none"
    ELSE invoked[Len(invoked)].fn

\* The environment variable each chat-completion-style adapter requires.
RequiredKeyVar(fn) ==
    CASE fn = "createOpenaiProvider"   -> "OPENAI_API_KEY"
      [] fn = "createTemplateProvider" -> "OPENAI_API_KEY"
      [] fn = "createClaudeProvider"   -> "ANTHROPIC_API_KEY"
      [] fn = "createGrokProvider"     -> "GROK_API_KEY"

ChatConstructors ==
    { "createOpenaiProvider", "createTemplateProvider", "createClaudeProvider",
      "createGrokProvider" }

\* C1: every chat-completion-style adapter's createProvider uses
\* config.apiKey when it is non-empty and the provider's environment variable
\* otherwise; when both are absent or empty it rejects, before a generator is
\* returned or a backend client constructed, with an error whose message
\* names the provider's environment variable.
C1_KeyRequiredAtCreation ==
    (Created /\ LastConstructor \in ChatConstructors) =>
        LET var == RequiredKeyVar(LastConstructor)
            key == IF Truthy(cfg.apiKey) THEN cfg.apiKey ELSE env[var]
        IN  IF Truthy(key)
              THEN /\ pc = "created"
                   /\ Len(clients) = 1
                   /\ clients[1].apiKey = key
              ELSE /\ pc = "failed"
                   /\ generator = NoGenerator
                   /\ clients = <<>>
                   /\ Names(error, var)

\* C1 for the adapters other than Grok's: the part of C1 the code keeps.
C1_ExceptGrok ==
    (LastConstructor # "createGrokProvider") => C1_KeyRequiredAtCreation

\* C2: createContentGenerator with a provider tag outside the Provider
\* enumeration rejects with an error whose message contains the tag, and
\* invokes no adapter constructor, no code-assist factory, no backend client.
C2_UnknownProviderRejected ==
    (Created /\ entry = "createContentGenerator" /\ cfg.provider \in UnknownTags) =>
        /\ pc = "failed"
        /\ Names(error, cfg.provider)
        /\ invoked = <<>>
        /\ clients = <<>>
        /\ generator = NoGenerator

C2_Witness ==
    /\ pc = "failed"
    /\ entry = "createContentGenerator"
    /\ cfg.provider = "mistral"
    /\ Names(error, "mistral")

\* The provider tag each constructor belongs to.
TagOf(fn) ==
    CASE fn = "createCodeAssistContentGenerator" -> "gemini"
      [] fn = "createGoogleGenaiProvider"        -> "gemini"
      [] fn = "createOpenaiProvider"             -> "openai"
      [] fn = "createClaudeProvider"             -> "claude"
      [] fn = "createGrokProvider"               -> "grok"
      [] fn = "createDoubaoProvider"             -> "doubao"
      [] fn = "createQwenProvider"               -> "qwen"
      [] fn = "createKimiProvider"               -> "kimi"
      [] fn = "createDeepseekProvider"           -> "deepseek"

\* C3: for every provider tag of the enumeration (a missing tag counts as
\* gemini) createContentGenerator invokes exactly one constructor, the one of
\* that tag; for gemini it is the code-assist factory, called with
\* httpOptions, authType, the session config and the session id, exactly when
\* authType is LOGIN_WITH_GOOGLE or CLOUD_SHELL, and the Google GenAI adapter,
\* called with the config, the session config and the session id, otherwise.
C3_ExactlyOneConstructor ==
    (Created /\ entry = "createContentGenerator" /\ cfg.provider \notin UnknownTags) =>
        LET tag == IF cfg.provider = Undefined THEN "gemini" ELSE cfg.provider
            managed == cfg.authType \in { "oauth-personal", "cloud-shell" }
        IN  /\ Len(invoked) = 1
            /\ TagOf(invoked[1].fn) = tag
            /\ invoked[1].gcConfig = gcConfig
            /\ invoked[1].sessionId = sessionId
            /\ tag = "gemini" =>
                 /\ (invoked[1].fn = "createCodeAssistContentGenerator") <=> managed
                 /\ managed => /\ invoked[1].httpOptions = UserAgent(env)
                               /\ invoked[1].authType = cfg.authType
                 /\ ~managed => /\ invoked[1].config = cfg
                                /\ Len(clients) = 1
                                /\ clients[1].sdk = "GoogleGenAI"
            /\ tag # "gemini" => invoked[1].config = cfg

C3_Witness ==
    /\ pc = "created"
    /\ entry = "createContentGenerator"
    /\ cfg.provider = Undefined
    /\ cfg.authType = "cloud-shell"
    /\ sessionId = "session-1"
    /\ Len(invoked) = 1
    /\ invoked[1].fn = "createCodeAssistContentGenerator"

\* The name of each adapter's provider.
ProviderName(kind) ==
    CASE kind = "openai"         -> "OpenAI"
      [] kind = "openaiTemplate" -> "OpenAI"
      [] kind = "claude"         -> "Claude"
      [] kind = "grok"           -> "Grok"

\* The operations each adapter's backend does not support.
UnsupportedOps(kind) ==
    CASE kind = "openai"         -> { "countTokens" }
      [] kind = "openaiTemplate" -> { "countTokens" }
      [] kind = "claude"         -> { "generateContentStream", "countTokens", "embedContent" }
      [] kind = "grok"           -> { "generateContentStream", "countTokens", "embedContent" }

SaysNotImplemented(msg) ==
    Names(msg, " not implemented for ") \/ Names(msg, " is not implemented for ")

\* C4: an operation the provider's backend does not support rejects with a
\* "not implemented for provider P" error that names P, issues no backend
\* call and does not run another operation in its place.
C4_UnsupportedNamesProvider ==
    (pc = "created" /\ generator \in Adapters /\ op \in UnsupportedOps(generator)) =>
        /\ response.kind = "rejected"
        /\ calls = <<>>
        /\ SaysNotImplemented(error)
        /\ Names(error, ProviderName(generator))

\* C4 for the adapters other than Grok's: the part of C4 the code keeps.
C4_ExceptGrok ==
    (generator # "grok") => C4_UnsupportedNamesProvider

\* The text a delta event carries: its first choice's content, or nothing.
DeltaText(event) ==
    IF Len(event) >= 1 /\ event[1].hasContent THEN event[1].content ELSE <<>>

\* C5: for backend delta events d1..dn the returned sequence yields n chunks
\* in the same order, chunk i with one candidate of role model whose text is
\* di's text alone (empty when di has no content), and it ends when the
\* backend's stream ends.
C5_OneChunkPerDelta ==
    (op = "generateContentStream" /\ response.kind \in { "stream", "streamEnded", "streamFailed" }) =>
        /\ Len(chunks) = Len(backend)
        /\ \A i \in 1..Len(chunks) :
             /\ Len(chunks[i].candidates) = 1
             /\ chunks[i].candidates[1].role = "model"
             /\ chunks[i].candidates[1].parts = << DeltaText(backend[i]) >>

C5_Witness ==
    /\ op = "generateContentStream"
    /\ response.kind = "streamEnded"
    /\ backend = << << TextOf(<<"H", "e", "l">>) >>, << TextOf(<<"l", "o">>) >>, << NoText >> >>
    /\ Len(chunks) = 3
    /\ ChunkText(chunks[2]) = <<"l", "o">>
    /\ ChunkText(chunks[3]) = <<>>

\* The message list the claim expects for a content list: one message per
\* item, in order; a bare string is a user message with that string; an
\* object has its role, or user when it lacks one, and the concatenation of
\* its text parts, a non-text part counting as the empty string.
ExpectedMessage(item) ==
    IF item.type = "string" THEN [ role |-> "user", content |-> item.text ]
    ELSE [ role |-> IF item.hasRole THEN item.role ELSE "user",
           content |-> Join([ i \in 1..Len(item.parts) |->
                               IF item.parts[i].type = "text" THEN item.parts[i].text
                               ELSE <<>> ]) ]

ExpectedMessages(contents) ==
    LET list == CASE contents.kind = "string" -> << StringItem(contents.text) >>
                  [] contents.kind = "undefined" -> <<>>
                  [] OTHER -> contents.items
    IN  [ i \in 1..Len(list) |-> ExpectedMessage(list[i]) ]

\* C6: every adapter translates a content list given as a string or a list
\* of turns to one message per item, in order, with the item's role (user for
\* a bare string or an object without role) and the concatenation of its text
\* parts, and raises no error.
C6_TranslationKeepsRoleAndText ==
    (op = "generateContent" /\ generator \in { "openai", "openaiTemplate", "claude" }) =>
        /\ error # TypeError
        /\ calls # <<>> => calls[1].messages = ExpectedMessages(request.contents)

\* The environment variable that belongs to each key-based auth mode.
KeyVariableOf(authType) ==
    CASE authType = "gemini-api-key" -> "GEMINI_API_KEY"
      [] authType = "vertex-ai"      -> "GOOGLE_API_KEY"
      [] authType = "openai"         -> "OPENAI_API_KEY"
      [] authType = "claude"         -> "ANTHROPIC_API_KEY"
      [] authType = "grok"           -> "GROK_API_KEY"
      [] authType = "doubao"         -> "DOUBAO_API_KEY"
      [] authType = "qwen"           -> "QWEN_API_KEY"
      [] authType = "kimi"           -> "KIMI_API_KEY"
      [] authType = "deepseek"       -> "DEEPSEEK_API_KEY"
      [] OTHER                       -> "none"

\* C7: createContentGeneratorConfig never fails; for LOGIN_WITH_GOOGLE and
\* CLOUD_SHELL the config has no apiKey; for a key-based mode apiKey is the
\* mode's environment variable when that is set (to a non-empty value: the
\* code reads an empty variable as unset) and absent otherwise; and changing
\* any other key variable, to any value, leaves the returned config the same.
C7_ResolveReadsOnlySelectedKey ==
    (pc # "start") =>
        LET a   == cfg.authType
            var == KeyVariableOf(a)
        IN  /\ pc = "configured" => (error = NoError /\ invoked = <<>> /\ clients = <<>>)
            /\ a \in { "oauth-personal", "cloud-shell" } => cfg.apiKey = Undefined
            /\ var # "none" =>
                 cfg.apiKey = (IF env[var] \notin { Undefined, "" } THEN env[var]
                               ELSE Undefined)
            /\ \A v \in KeyVars \ { var } : \A val \in { Undefined, "", EnvValue[v] } :
                 createContentGeneratorConfig(gcConfig, a, [ env EXCEPT ![v] = val ]) = cfg

C7_Witness ==
    /\ pc = "configured"
    /\ cfg.authType = "claude"
    /\ env["ANTHROPIC_API_KEY"] = "anthropic-key"
    /\ env["OPENAI_API_KEY"] = "openai-key"
    /\ cfg.apiKey = "anthropic-key"

\* The constructor the gemini branch of the dispatch hands the call to.
GeminiBranch(authType) ==
    IF authType \in { "oauth-personal", "cloud-shell" }
      THEN "createCodeAssistContentGenerator"
      ELSE "createGoogleGenaiProvider"

\* C11: createContentGeneratorConfig sets no provider for any auth mode, so
\* when its result is passed unchanged to createContentGenerator the dispatch
\* takes the gemini branch: the one constructor called is the code-assist
\* factory for LOGIN_WITH_GOOGLE and CLOUD_SHELL and the Google GenAI adapter
\* for every other mode, the modes named after a chat provider included; no
\* chat-style adapter's constructor is called and the factory does not throw
\* the unsupported-provider error.
C11_ResolvedConfigDispatchesToGemini ==
    /\ \A a \in AuthTypes \cup { Undefined } :
         createContentGeneratorConfig(gcConfig, a, env).provider = Undefined
    /\ (pc # "start") => cfg.provider = Undefined
    /\ Created =>
         /\ Len(invoked) = 1
         /\ invoked[1].fn = GeminiBranch(cfg.authType)
         /\ invoked[1].fn \notin ChatConstructors
         /\ ~Names(error, "Unsupported provider: ")

C11_Witness ==
    /\ pc = "created"
    /\ cfg.authType = "openai"
    /\ cfg.apiKey = "openai-key"
    /\ cfg.provider = Undefined
    /\ Len(invoked) = 1
    /\ invoked[1].fn = "createGoogleGenaiProvider"

\* C8: for an adapter with an embedding endpoint and n input texts,
\* embedContent returns n vectors, vector i the embedding of input i; a single
\* string gives one vector.
C8_OneEmbeddingPerInput ==
    (op = "embedContent" /\ response.kind = "response") =>
        LET ts == IF request.contents.kind = "string" THEN << request.contents.text >>
                  ELSE [ i \in 1..Len(request.contents.items) |->
                           request.contents.items[i].text ]
        IN  /\ generator \in { "openai", "openaiTemplate" }
            /\ request.contents.kind = "string" => Len(response.embeddings) = 1
            /\ Len(response.embeddings) = Len(ts)
            /\ \A i \in 1..Len(ts) : response.embeddings[i].values = EmbeddingOf(ts[i])

C8_Witness ==
    /\ op = "embedContent"
    /\ response.kind = "response"
    /\ request.contents.kind = "array"
    /\ InputTexts(request.contents) = << <<"a">>, <<"b">>, <<"c">> >>
    /\ Len(response.embeddings) = 3
    /\ response.embeddings[3].values = EmbeddingOf(<<"c">>)

\* C9: for every supported provider (a tag of the enumeration, its generator
\* made by the factory) with a valid key, generateContent issues
\* exactly one backend completion call and either resolves to one candidate
\* of role model whose text is the first returned choice's text (empty when
\* there is none), or rejects with the backend's error unmodified.
C9_OneCallOneOutcome ==
    (pc = "created" /\ entry = "createContentGenerator" /\ generator \in Adapters
       /\ op = "generateContent") =>
        /\ Len(calls) = 1
        /\ Len(backend) = 1
        /\ IF backend[1].ok
             THEN /\ response.kind = "response"
                  /\ Len(response.candidates) = 1
                  /\ response.candidates[1].role = "model"
                  /\ response.candidates[1].parts =
                       << IF backend[1].choices # <<>> /\ backend[1].choices[1].hasContent
                            THEN backend[1].choices[1].content ELSE <<>> >>
             ELSE /\ response.kind = "rejected"
                  /\ error = BackendError

\* C9 for the OpenAI and Claude adapters: the part of C9 the code keeps.
C9_OpenaiAndClaude ==
    (generator \in { "openai", "claude" }) => C9_OneCallOneOutcome

\* An option is passed through: the call carries the request's value when
\* the request has one and carries nothing when it has none.
PassedThrough(requested, carried) ==
    IF requested # Undefined THEN carried = requested
    ELSE carried \in { Undefined, Absent }

\* C10: the single-shot call of every chat-completion-style adapter carries
\* the request's model and translated messages, and temperature, topP and
\* maxOutputTokens with the request's value whenever the request has them; no
\* present option is dropped, no absent option is given an adapter's value.
C10_OptionsPassedThrough ==
    (op = "generateContent" /\ calls # <<>>) =>
        /\ calls[1].model = request.model
        /\ calls[1].messages = translate(generator, request.contents).messages
        /\ PassedThrough(request.temperature, calls[1].temperature)
        /\ PassedThrough(request.topP, calls[1].top_p)
        /\ PassedThrough(request.maxOutputTokens, calls[1].max_tokens)

\* The part of C10 the code keeps: model, messages and temperature.
C10_ModelMessagesTemperature ==
    (op = "generateContent" /\ calls # <<>>) =>
        /\ calls[1].model = request.model
        /\ calls[1].messages = translate(generator, request.contents).messages
        /\ PassedThrough(request.temperature, calls[1].temperature)

====
